---- MODULE Spec2Model ----
(***************************************************************************)
(* A model of the safe query executor (query_executor.py), the            *)
(* conversation store (context_manager.py) and the request pipeline       *)
(* (app.py, sql_generator.py, insight_generator.py) of SQL Query Buddy.   *)
(*                                                                         *)
(* SQL text is a sequence of atoms.  An atom is a run of characters that   *)
(* the code never looks inside: a keyword, a word, a number, one blank,    *)
(* one semicolon.  Concatenating atoms concatenates their characters, so   *)
(* <<"x", "LIMIT">> is the single word xLIMIT (a LIMIT substring that is   *)
(* no LIMIT clause) while <<"x", " ", "LIMIT", " ", "5000">> carries a     *)
(* LIMIT clause.                                                           *)
(***************************************************************************)
EXTENDS Integers, Sequences, FiniteSets, TLC

VARIABLES
    sql_query,             \* executor: the text handed to the call
    tableRows,             \* executor: rows the queried table holds
    entry,                 \* executor: "none", "execute_safe_query" or "execute_query"
    result,                \* executor: the dictionary the call returned
    connects,              \* executor: number of engine.connect() calls made
    executed,              \* executor: texts handed to conn.execute, in order
    raised,                \* executor: TRUE iff an exception left the call
    max_history,           \* store: the configured cap
    conversation_history,  \* store: the message list used for prompting
    query_history,         \* store: the turn list
    now,                   \* store: the clock datetime.now() reads
    added,                 \* store: add_exchange calls since construction or the last clear
    pc,                    \* pipeline: where process_query stands
    question,              \* pipeline: the question of the request
    history,               \* pipeline: the caller's chat history
    explanation,           \* pipeline: the explanation generate_sql returned
    insights,              \* pipeline: the insights text
    ret,                   \* pipeline: what process_query returned
    calls,                 \* pipeline: calls made by the request, per collaborator
    turnsBefore,           \* pipeline: turns in the store when the request began
    requests,              \* pipeline: requests begun
    db_schema,             \* index: the schema snapshot the database has now
    persisted,             \* index: the directory at vector_db_path
    vectorstore,           \* index: self.vectorstore, "None" or "Chroma"
    lastCall,              \* index: what the last call on the manager did
    ops,                   \* index: operations so far
    sessions,              \* sessions: per browser session, its buddy and its request
    checked_out,           \* sessions: connections checked out of each buddy's engine
    stepped                \* sessions: the session whose handler took the last step

execVars == <<sql_query, tableRows, entry, result, connects, executed, raised>>

storeVars == <<max_history, conversation_history, query_history, now, added>>

pipeVars ==
    <<pc, question, history, explanation, insights, ret, calls, turnsBefore, requests>>

indexVars == <<db_schema, persisted, vectorstore, lastCall, ops>>

sessionVars == <<sessions, checked_out, stepped>>

vars == <<execVars, storeVars, pipeVars, indexVars, sessionVars>>

-----------------------------------------------------------------------------
(* Bounds *)

MaxLen == 4

MaxHistory == 2

MaxAdds == 4

MaxRequests == 2

MaxOps == 4

MaxResponse == 4

MaxAsked == 3

-----------------------------------------------------------------------------
(* Text: atoms and the str methods the executor uses *)

Atoms == {"select", " ", ";", "x", "drop", "LIMIT", "5000"}

\* Atoms of a model response only: the code fence (three backquotes, written
\* "fence") and its language tag
FenceAtoms == {"fence", "sql"}

Texts == UNION {[1..n -> Atoms] : n \in 0..MaxLen}

\* str.upper() on one atom
UpperAtom(a) ==
    CASE a = "select" -> "SELECT"
      [] a = "drop"   -> "DROP"
      [] a = "x"      -> "X"
      [] OTHER        -> a

\* str.upper()
Upper(s) == [i \in 1..Len(s) |-> UpperAtom(s[i])]

IsSpace(a) == a = " "

\* str.lstrip()
RECURSIVE LStrip(_)
LStrip(s) == IF s # <<>> /\ IsSpace(Head(s)) THEN LStrip(Tail(s)) ELSE s

\* str.rstrip()
RECURSIVE RStrip(_)
RStrip(s) ==
    IF s # <<>> /\ IsSpace(s[Len(s)]) THEN RStrip(SubSeq(s, 1, Len(s) - 1)) ELSE s

\* str.strip()
Strip(s) == LStrip(RStrip(s))

\* s.startswith(word), word one atom long
StartsWith(s, word) == s # <<>> /\ Head(s) = word

\* s.endswith(word), word one atom long
EndsWith(s, word) == s # <<>> /\ s[Len(s)] = word

\* word in s, word one atom long
Contains(s, word) == \E i \in 1..Len(s) : s[i] = word

\* str(n) for the numbers that occur
NumStr(n) == IF n = 1000 THEN "1000" ELSE "5000"

Numbers == {"1000", "5000"}

NumVal(a) == IF a = "1000" THEN 1000 ELSE 5000

-----------------------------------------------------------------------------
(* The database behind the connection *)

TableSizes == {0, 3, 1500}

TableColumns == <<"id", "name">>

\* What connecting, executing and fetching can do: succeed, or raise at one
\* of the three calls.
Outcomes == {"ok", "connect_error", "execute_error", "fetch_error"}

\* Positions of the text where a LIMIT clause stands: the keyword as a word
\* of its own, followed by a blank and a number.
LimitClauses(s) ==
    {i \in 1..Len(s) :
        /\ UpperAtom(s[i]) = "LIMIT"
        /\ (i = 1 \/ s[i - 1] \in {" ", ";"})
        /\ i + 2 <= Len(s)
        /\ s[i + 1] = " "
        /\ s[i + 2] \in Numbers}

HasLimitClause(s) == LimitClauses(s) # {}

Max(S) == CHOOSE m \in S : \A o \in S : o <= m

Min(a, b) == IF a <= b THEN a ELSE b

\* The row limit the database applies: the one of the last LIMIT clause.
RowCap(s) == NumVal(s[Max(LimitClauses(s)) + 2])

\* result.fetchall(): the rows the database hands back for a text it runs on
\* a table of n rows.
FetchAll(s, n) == IF HasLimitClause(s) THEN Min(n, RowCap(s)) ELSE n

-----------------------------------------------------------------------------
(* QueryExecutor *)

limit_rows == 1000

dangerous_keywords ==
    <<"DROP", "DELETE", "TRUNCATE", "ALTER", "CREATE", "INSERT", "UPDATE">>

\* Python's None
PyNone == [isNone |-> TRUE]

\* pd.DataFrame(rows, columns=...) or the plain list of rows: the tabular
\* data, kept as its kind, its number of rows and its columns
Tabular(return_dataframe, nrows, columns) ==
    [isNone  |-> FALSE,
     kind    |-> IF return_dataframe THEN "DataFrame" ELSE "list",
     nrows   |-> nrows,
     columns |-> columns]

\* The state of a call that has not returned
NoResult == [pending |-> TRUE]

\* AddLimit with the semicolon branch lost: a text that ends with a semicolon
\* is left as it is.
AddLimitSkipsSemicolon(sql, limit) ==
    IF StartsWith(Upper(Strip(sql)), "SELECT") /\ ~Contains(Upper(sql), "LIMIT")
           /\ ~EndsWith(RStrip(sql), ";")
    THEN sql \o <<" ", "LIMIT", " ", NumStr(limit)>>
    ELSE sql

\* AddLimit that appends the limit also after a closing semicolon
AddLimitAfterSemicolon(sql, limit) ==
    IF StartsWith(Upper(Strip(sql)), "SELECT") /\ ~Contains(Upper(sql), "LIMIT")
    THEN sql \o <<" ", "LIMIT", " ", NumStr(limit)>>
    ELSE sql

\* AddLimit that does not look for a LIMIT already in the text
AddLimitAgain(sql, limit) ==
    IF StartsWith(Upper(Strip(sql)), "SELECT")
    THEN IF ~EndsWith(RStrip(sql), ";")
         THEN sql \o <<" ", "LIMIT", " ", NumStr(limit)>>
         ELSE SubSeq(RStrip(sql), 1, Len(RStrip(sql)) - 1)
                  \o <<" ", "LIMIT", " ", NumStr(limit), ";">>
    ELSE sql

\* The text execute_query runs: the safety limit added to a SELECT without
\* the substring LIMIT, before a closing semicolon if there is one.
AddLimit(sql, limit) ==
    IF StartsWith(Upper(Strip(sql)), "SELECT") /\ ~Contains(Upper(sql), "LIMIT")
    THEN IF ~EndsWith(RStrip(sql), ";")
         THEN sql \o <<" ", "LIMIT", " ", NumStr(limit)>>
         ELSE SubSeq(RStrip(sql), 1, Len(RStrip(sql)) - 1)
                  \o <<" ", "LIMIT", " ", NumStr(limit), ";">>
    ELSE sql

\* Caught with the fetch left outside the try block
CaughtBeforeFetch(outcome) == outcome \in {"connect_error", "execute_error"}

\* except Exception: the errors the handler of execute_query catches
Caught(outcome) == outcome \in {"connect_error", "execute_error", "fetch_error"}

\* FailureResult with the "data" key forgotten
FailureResultNoData(error, query) ==
    [success |-> FALSE, error |-> error, query |-> query]

\* The dictionary of the except branch; str(e) is kept as the kind of error.
FailureResult(error, query) ==
    [success |-> FALSE, error |-> error, query |-> query, data |-> PyNone]

\* The dictionary of both success branches
SuccessResult(return_dataframe, nrows, columns, query) ==
    [success   |-> TRUE,
     data      |-> Tabular(return_dataframe, nrows, columns),
     row_count |-> nrows,
     columns   |-> columns,
     query     |-> query]

\* execute_query on a table of n rows when the database does "outcome":
\* what it returns, and what it did to the connection on the way.
execute_query(sql, return_dataframe, limit, outcome, n) ==
    LET run == AddLimit(sql, limit)
        fetched == FetchAll(run, n)
    IN  [result   |-> IF outcome = "ok"
                      THEN SuccessResult(return_dataframe, fetched, TableColumns, run)
                      ELSE IF Caught(outcome)
                           THEN FailureResult(<<"db", outcome>>, run)
                           ELSE NoResult,
         connects |-> 1,
         executed |-> IF outcome = "connect_error" THEN <<>> ELSE <<run>>,
         raised   |-> outcome # "ok" /\ ~Caught(outcome)]

\* The dangerous keywords the gate finds in the upper-cased text
FoundKeywords(query_upper) ==
    {k \in 1..Len(dangerous_keywords) : Contains(query_upper, dangerous_keywords[k])}

\* Rejected with the keywords looked up in the text as written, not upper-cased
RejectedCaseSensitive(sql) ==
    ~StartsWith(Strip(Upper(sql)), "SELECT") /\ FoundKeywords(Strip(sql)) # {}

\* The gate: TRUE iff the text is rejected
Rejected(sql) ==
    LET query_upper == Strip(Upper(sql))
    IN  ~StartsWith(query_upper, "SELECT") /\ FoundKeywords(query_upper) # {}

\* The keyword the rejection names: the first of the list found in the text
RejectedKeyword(sql) ==
    LET found == FoundKeywords(Strip(Upper(sql)))
    IN  dangerous_keywords[CHOOSE k \in found : \A o \in found : k <= o]

\* execute_safe_query
execute_safe_query(sql, return_dataframe, outcome, n) ==
    IF Rejected(sql)
    THEN [result   |-> FailureResult(<<"not allowed", RejectedKeyword(sql)>>, sql),
          connects |-> 0,
          executed |-> <<>>,
          raised   |-> FALSE]
    ELSE execute_query(sql, return_dataframe, limit_rows, outcome, n)

-----------------------------------------------------------------------------
(* ContextManager *)

\* dict.get(key, default)
Get(d, key, default) == IF key \in DOMAIN d THEN d[key] ELSE default

\* lst[-k:] for k >= 0: the last k elements, and the whole list when k = 0
\* (-0 is 0) or k >= len(lst)
LastK(lst, k) ==
    IF k = 0 \/ k >= Len(lst) THEN lst ELSE SubSeq(lst, Len(lst) - k + 1, Len(lst))

\* HumanMessage(content=question)
HumanMessage(q) ==
    [type |-> "human", text |-> q, sql |-> <<>>, explanation |-> "",
     rows |-> <<>>, insights |-> ""]

\* AIMessage(content=response): the response joins the parts whose value is
\* truthy, so it is kept as the parts, an absent part being the empty value.
AIMessage(sql, expl, results, ins) ==
    [type |-> "ai", text |-> "", sql |-> sql, explanation |-> expl,
     rows |-> IF results # PyNone /\ Get(results, "success", FALSE)
              THEN <<Get(results, "row_count", 0)>> ELSE <<>>,
     insights |-> ins]

\* The dictionary appended to query_history
Turn(timestamp, q, sql, results, expl, ins) ==
    [timestamp   |-> timestamp,
     question    |-> q,
     sql_query   |-> sql,
     explanation |-> expl,
     row_count   |-> IF results # PyNone THEN Get(results, "row_count", 0) ELSE 0,
     success     |-> IF results # PyNone THEN Get(results, "success", FALSE) ELSE FALSE,
     insights    |-> ins]

\* The message list trimmed to the cap of the turn list
add_exchange_messages_turn_cap(messages, cap, q, sql, results, expl, ins) ==
    LET appended == messages \o <<HumanMessage(q), AIMessage(sql, expl, results, ins)>>
    IN  IF Len(appended) > cap THEN LastK(appended, cap) ELSE appended

\* The message list after add_exchange
add_exchange_messages(messages, cap, q, sql, results, expl, ins) ==
    LET appended == messages \o <<HumanMessage(q), AIMessage(sql, expl, results, ins)>>
    IN  IF Len(appended) > cap * 2 THEN LastK(appended, cap * 2) ELSE appended

\* add_exchange_turns recording successful results only
add_exchange_turns_successes(turns, cap, t, q, sql, results, expl, ins) ==
    LET appended == IF results # PyNone /\ Get(results, "success", FALSE)
                    THEN Append(turns, Turn(t, q, sql, results, expl, ins))
                    ELSE turns
    IN  IF Len(appended) > cap THEN LastK(appended, cap) ELSE appended

\* The turn list after add_exchange at time t
add_exchange_turns(turns, cap, t, q, sql, results, expl, ins) ==
    LET appended == Append(turns, Turn(t, q, sql, results, expl, ins))
    IN  IF Len(appended) > cap THEN LastK(appended, cap) ELSE appended

\* What callers hand to add_exchange
Questions == {"q1", "q2"}

Exchanges ==
    {[question |-> q, sql |-> <<"select", " ", "x">>, explanation |-> "e1",
      results |-> SuccessResult(TRUE, 3, TableColumns, <<"select", " ", "x">>),
      insights |-> "i1"] : q \in Questions}
    \cup
    {[question |-> q, sql |-> <<"drop", " ", "x">>, explanation |-> "e1",
      results |-> FailureResult(<<"not allowed", "DROP">>, <<"drop", " ", "x">>),
      insights |-> ""] : q \in Questions}
    \cup
    {[question |-> q, sql |-> <<>>, explanation |-> "", results |-> PyNone,
      insights |-> ""] : q \in Questions}

IdleStore ==
    /\ max_history = 20
    /\ conversation_history = <<>>
    /\ query_history = <<>>
    /\ now = 0
    /\ added = 0

InitStore ==
    /\ max_history \in 0..MaxHistory
    /\ conversation_history = <<>>
    /\ query_history = <<>>
    /\ now = 0
    /\ added = 0

AddExchange ==
    /\ now < MaxAdds
    /\ \E ex \in Exchanges :
        /\ conversation_history' =
               add_exchange_messages(conversation_history, max_history, ex.question,
                                     ex.sql, ex.results, ex.explanation, ex.insights)
        /\ query_history' =
               add_exchange_turns(query_history, max_history, now + 1, ex.question,
                                  ex.sql, ex.results, ex.explanation, ex.insights)
    /\ now' = now + 1
    /\ added' = added + 1
    /\ UNCHANGED max_history

\* A clear that empties the turn list only
ClearHistoryTurnsOnly ==
    /\ query_history' = <<>>
    /\ added' = 0
    /\ UNCHANGED <<max_history, conversation_history, now>>

\* clear_history
ClearHistory ==
    /\ conversation_history' = <<>>
    /\ query_history' = <<>>
    /\ added' = 0
    /\ UNCHANGED <<max_history, now>>

\* a / b of Python for integers: the quotient as numerator and denominator,
\* or ZeroDivisionError
Divide(a, b) ==
    IF b = 0 THEN [raised |-> TRUE, num |-> 0, den |-> 0]
    ELSE [raised |-> FALSE, num |-> a, den |-> b]

\* The integer 0 as a quotient
Zero == [raised |-> FALSE, num |-> 0, den |-> 1]

\* sum(1 for q in turns if q.get("success", False))
RECURSIVE CountSuccessful(_)
CountSuccessful(turns) ==
    IF turns = <<>> THEN 0
    ELSE (IF Get(Head(turns), "success", FALSE) THEN 1 ELSE 0)
             + CountSuccessful(Tail(turns))

\* sum(q.get("row_count", 0) for q in turns)
RECURSIVE TotalRows(_)
TotalRows(turns) ==
    IF turns = <<>> THEN 0
    ELSE Get(Head(turns), "row_count", 0) + TotalRows(Tail(turns))

\* get_summary
get_summary(turns, messages) ==
    LET total_queries == Len(turns)
        successful_queries == CountSuccessful(turns)
        total_rows == TotalRows(turns)
    IN  [total_queries       |-> total_queries,
         successful_queries  |-> successful_queries,
         success_rate        |-> IF total_queries > 0
                                 THEN Divide(successful_queries, total_queries)
                                 ELSE Zero,
         total_rows_returned |-> total_rows,
         conversation_turns  |-> Len(messages) \div 2]

-----------------------------------------------------------------------------
(* SchemaLoader and VectorStoreManager *)

\* The schema snapshots the database goes through: no table, one table, two
\* tables joined by a foreign key, and the two tables with orders widened
Snapshots == {"empty", "customers", "shop", "shop_v2"}

\* get_all_tables
get_all_tables(snapshot) ==
    CASE snapshot = "empty" -> <<>>
      [] snapshot = "customers" -> <<"customers">>
      [] OTHER -> <<"customers", "orders">>

\* The foreign keys get_table_schema reports for a table, as the lines
\* get_relationships_text makes of them
ForeignKeys(snapshot, table) ==
    IF snapshot \in {"shop", "shop_v2"} /\ table = "orders"
    THEN <<"orders.customer_id references customers.id">>
    ELSE <<>>

\* schema_to_text(get_table_schema(table)): a document of the lines of the
\* text and its length in characters
SchemaDocument(snapshot, table) ==
    [type  |-> "schema",
     table |-> table,
     text  |-> <<"Table", table, IF snapshot = "shop_v2" /\ table = "orders"
                                  THEN "columns v2" ELSE "columns v1">>,
     size  |-> IF snapshot = "shop_v2" /\ table = "orders" THEN 1500 ELSE 400]

\* get_all_schemas_text
get_all_schemas_text(snapshot) ==
    [i \in 1..Len(get_all_tables(snapshot)) |->
        SchemaDocument(snapshot, get_all_tables(snapshot)[i])]

RECURSIVE AllForeignKeys(_, _)
AllForeignKeys(snapshot, tables) ==
    IF tables = <<>> THEN <<>>
    ELSE ForeignKeys(snapshot, Head(tables)) \o AllForeignKeys(snapshot, Tail(tables))

\* The text returned when no table has a foreign key
NoRelationships == "No foreign key relationships found."

\* get_relationships_text without the text for no relationships
get_relationships_text_or_nothing(snapshot) ==
    LET relationships == AllForeignKeys(snapshot, get_all_tables(snapshot))
    IN  IF relationships # <<>>
        THEN <<"Table Relationships:">> \o relationships
        ELSE <<>>

\* get_relationships_text, as lines
get_relationships_text(snapshot) ==
    LET relationships == AllForeignKeys(snapshot, get_all_tables(snapshot))
    IN  IF relationships # <<>>
        THEN <<"Table Relationships:">> \o relationships
        ELSE <<NoRelationships>>

\* What SELECT * FROM table LIMIT 3 does
SampleOutcomes == {"rows", "empty", "error"}

\* get_sample_data(table, limit=3), as lines: an error is caught and returned
\* as text
get_sample_data(table, outcome) ==
    CASE outcome = "rows" -> <<"Sample data from", table, "3 rows">>
      [] outcome = "empty" -> <<"No data found in", table>>
      [] OTHER -> <<"Error retrieving sample data", table>>

\* The documents build_vector_store makes: one per table schema, the
\* relationships, and with include_samples one per table of sample data
Documents(snapshot, include_samples, sampled) ==
    LET tables == get_all_tables(snapshot)
    IN  get_all_schemas_text(snapshot)
        \o <<[type  |-> "relationships",
              table |-> "",
              text  |-> get_relationships_text(snapshot),
              size  |-> 100]>>
        \o (IF include_samples
            THEN [i \in 1..Len(tables) |->
                     [type  |-> "sample_data",
                      table |-> tables[i],
                      text  |-> <<"Sample Data:">> \o get_sample_data(tables[i], sampled[tables[i]]),
                      size  |-> 300]]
            ELSE <<>>)

\* RecursiveCharacterTextSplitter(chunk_size=1000, chunk_overlap=200)
chunk_size == 1000

chunk_overlap == 200

\* The number of chunks a text of that length is split into: one when it
\* fits, and else as many as cover it with the overlap
Pieces(size) ==
    IF size <= chunk_size THEN 1
    ELSE 1 + ((size - chunk_size) + (chunk_size - chunk_overlap) - 1)
                 \div (chunk_size - chunk_overlap)

\* split_documents: every document becomes its chunks, in order
RECURSIVE split_documents(_)
split_documents(documents) ==
    IF documents = <<>> THEN <<>>
    ELSE LET d == Head(documents)
         IN  [p \in 1..Pieces(d.size) |->
                 [type |-> d.type, table |-> d.table, text |-> d.text,
                  part |-> p, parts |-> Pieces(d.size)]]
             \o split_documents(Tail(documents))

\* The directory at vector_db_path: whether it lists any file, and the chunks
\* of the collection it holds
EmptyDirectory == [files |-> FALSE, chunks |-> <<>>]

\* A build that adds the new chunks to the collection found in the directory
build_adds_to_persisted(directory, split) ==
    [path      |-> IF directory.files THEN "load" ELSE "create",
     directory |-> [files |-> TRUE, chunks |-> directory.chunks \o split],
     embedded  |-> Len(split)]

\* A build that creates the index anew when the directory holds other chunks
build_anew_when_stale(directory, split) ==
    IF directory.files /\ directory.chunks = split
    THEN [path |-> "load", directory |-> directory, embedded |-> 0]
    ELSE [path      |-> "create",
          directory |-> [files |-> TRUE, chunks |-> split],
          embedded  |-> Len(split)]

\* The create-or-load branch of build_vector_store: the path taken, the
\* directory afterwards, and the number of chunks embedded
CreateOrLoad(directory, split) ==
    IF directory.files
    THEN [path |-> "load", directory |-> directory, embedded |-> 0]
    ELSE [path      |-> "create",
          directory |-> [files |-> TRUE, chunks |-> split],
          embedded  |-> Len(split)]

\* What can go wrong in a build: the introspection of the schema raises, or
\* the embedding of the chunks does
BuildFaults == {"none", "introspection", "embedding"}

\* build_vector_store(include_samples) on a directory.  An introspection
\* error leaves before anything is done.  An embedding error leaves the create
\* path with the directory as it was or, when residue, with the files of an
\* empty collection in it; the load path embeds nothing.
build_vector_store(directory, snapshot, include_samples, sampled, fault, residue) ==
    LET split == split_documents(Documents(snapshot, include_samples, sampled))
        done == CreateOrLoad(directory, split)
    IN  IF fault = "introspection"
        THEN [ok |-> FALSE, path |-> "none", directory |-> directory,
              embedded |-> 0, fresh |-> <<>>]
        ELSE IF fault = "embedding" /\ done.path = "create"
        THEN [ok |-> FALSE, path |-> "create",
              directory |-> IF residue THEN [files |-> TRUE, chunks |-> <<>>]
                            ELSE directory,
              embedded |-> 0, fresh |-> split]
        ELSE [ok |-> TRUE, path |-> done.path, directory |-> done.directory,
              embedded |-> done.embedded, fresh |-> split]

\* The question each query is about
Topic(query) == IF query = "q1" THEN "customers" ELSE "orders"

\* The similarity of a chunk to a query
Score(query, chunk) ==
    IF chunk.table = Topic(query) THEN 2
    ELSE IF chunk.type = "relationships" THEN 1 ELSE 0

\* similarity_search(query, k): the k chunks most similar to the query, the
\* most similar first
similarity_search(chunks, query, k) ==
    LET Best(c) == Score(query, c) = 2
        Good(c) == Score(query, c) = 1
        Rest(c) == Score(query, c) = 0
        ranked == SelectSeq(chunks, Best) \o SelectSeq(chunks, Good)
                      \o SelectSeq(chunks, Rest)
    IN  SubSeq(ranked, 1, Min(k, Len(ranked)))

\* The k the pipeline and the defaults ask for
default_k == 5

\* "\n\n---\n\n".join(relevant_schemas), as lines
RECURSIVE Join(_)
Join(texts) ==
    IF texts = <<>> THEN <<>>
    ELSE IF Len(texts) = 1 THEN Head(texts)
    ELSE Head(texts) \o <<"---">> \o Join(Tail(texts))

ContextHeader == "Relevant Database Schema Information:"

\* The test of search_relevant_schemas with a build before every search
NeedsBuildAlways(store) == TRUE

\* self.vectorstore is None
NeedsBuild(store) == store = "None"

\* get_relevant_context of the chunks search_relevant_schemas found
get_relevant_context(found) ==
    <<ContextHeader>> \o Join([i \in 1..Len(found) |-> found[i].text])

\* No call made on the manager yet
NoCall ==
    [op       |-> "none",
     wasBuilt |-> FALSE,
     built    |-> FALSE,
     path     |-> "none",
     before   |-> EmptyDirectory,
     fresh    |-> <<>>,
     embedded |-> 0,
     outcome  |-> "ok",
     steps    |-> <<>>,
     returned |-> <<>>,
     fault    |-> "none",
     sampled  |-> <<>>]

\* No VectorStoreManager at work
IdleIndex ==
    /\ db_schema = "empty"
    /\ persisted = EmptyDirectory
    /\ vectorstore = "None"
    /\ lastCall = NoCall
    /\ ops = 0

-----------------------------------------------------------------------------
(* Browser sessions before any handler ran *)

\* The browser sessions open at once
Sessions == {1, 2}

\* A session as create_interface starts it: buddy_state holds None, no
\* request in flight.  Once the buddy is made the record carries the two
\* lists of the buddy's own ContextManager.
NoSession ==
    [buddy                |-> FALSE,
     pc                   |-> "idle",
     question             |-> "",
     prompted             |-> <<>>,
     sql                  |-> <<>>,
     results              |-> NoResult,
     insights             |-> "",
     conversation_history |-> <<>>,
     query_history        |-> <<>>,
     asked                |-> 0]

IdleSessions ==
    /\ sessions = [s \in Sessions |-> NoSession]
    /\ checked_out = [s \in Sessions |-> 0]
    /\ stepped = 0

-----------------------------------------------------------------------------
(* The pipeline before its first request *)

\* No call made yet by the request, per collaborator
NoCalls ==
    [retrieval |-> 0, sql_generation |-> 0, explanation |-> 0, execution |-> 0,
     insight |-> 0, failed |-> "none"]

\* process_query has not returned
NoReturn == [pending |-> TRUE]

\* SQLQueryBuddy constructed, no request begun
IdlePipe ==
    /\ pc = "idle"
    /\ question = ""
    /\ history = <<>>
    /\ explanation = ""
    /\ insights = ""
    /\ ret = NoReturn
    /\ calls = NoCalls
    /\ turnsBefore = 0
    /\ requests = 0

-----------------------------------------------------------------------------
(* The executor as a state machine: one call on one text *)

IdleExec ==
    /\ sql_query = <<>>
    /\ tableRows = 0
    /\ entry = "none"
    /\ result = NoResult
    /\ connects = 0
    /\ executed = <<>>
    /\ raised = FALSE

InitExec ==
    /\ IdleIndex /\ IdleSessions
    /\ IdleStore
    /\ IdlePipe
    /\ sql_query \in Texts
    /\ tableRows \in TableSizes
    /\ entry = "none"
    /\ result = NoResult
    /\ connects = 0
    /\ executed = <<>>
    /\ raised = FALSE

Return(name, r) ==
    /\ entry' = name
    /\ result' = r.result
    /\ connects' = connects + r.connects
    /\ executed' = executed \o r.executed
    /\ raised' = r.raised
    /\ UNCHANGED <<sessionVars, indexVars, sql_query, tableRows, storeVars, pipeVars>>

ExecuteSafeQuery ==
    /\ entry = "none"
    /\ \E return_dataframe \in BOOLEAN, outcome \in Outcomes :
           Return("execute_safe_query",
                  execute_safe_query(sql_query, return_dataframe, outcome, tableRows))

ExecuteQuery ==
    /\ entry = "none"
    /\ \E return_dataframe \in BOOLEAN, outcome \in Outcomes :
           Return("execute_query",
                  execute_query(sql_query, return_dataframe, limit_rows, outcome, tableRows))

NextExec == ExecuteSafeQuery \/ ExecuteQuery

SpecExec == InitExec /\ [][NextExec]_vars

\* execute_query called once more, on the query field of the successful
\* result of the call before
ExecuteAgain ==
    /\ entry \in {"execute_query", "execute_safe_query"}
    /\ ~raised
    /\ Get(result, "success", FALSE)
    /\ \E return_dataframe \in BOOLEAN, outcome \in Outcomes :
           Return("execute_query again",
                  execute_query(result.query, return_dataframe, limit_rows, outcome,
                                tableRows))

NextAgain == ExecuteSafeQuery \/ ExecuteQuery \/ ExecuteAgain

SpecAgain == InitExec /\ [][NextAgain]_vars

-----------------------------------------------------------------------------
(* The conversation store as a state machine *)

InitStoreOnly == IdleExec /\ IdlePipe /\ IdleIndex /\ IdleSessions /\ InitStore

NextStore ==
    \/ AddExchange /\ UNCHANGED <<sessionVars, indexVars, execVars, pipeVars>>
    \/ ClearHistory /\ UNCHANGED <<sessionVars, indexVars, execVars, pipeVars>>

SpecStore == InitStoreOnly /\ [][NextStore]_vars

-----------------------------------------------------------------------------
(* SQLQueryBuddy.process_query, with SQLGenerator.generate_sql and
   InsightGenerator.generate_insights, step by step *)

\* ContextManager(max_history=20)
app_max_history == 20

\* The two fixed texts of generate_insights
UnableToGenerate ==
    "Unable to generate insights: Query execution failed or returned no data."

NoRowsToAnalyze == "No insights available: Query returned no rows."

\* The text of the except branch of generate_insights
ErrorGenerating == "Error generating insights"

\* The text for data that pd.DataFrame does not take
NotSupported == "Unable to generate insights: Data format not supported."

\* generate_insights with one text for all the results it does not analyse
generate_insights_one_text(results, llm_ok) ==
    IF ~Get(results, "success", FALSE) \/ Get(results, "data", PyNone) = PyNone
       \/ results.data.nrows = 0
    THEN [text |-> UnableToGenerate, llm_calls |-> 0]
    ELSE [text |-> IF llm_ok THEN "i1" ELSE ErrorGenerating, llm_calls |-> 1]

\* InsightGenerator.generate_insights(query, results, original_question):
\* the text returned and the number of model calls made; llm_ok tells whether
\* the model call, when made, returns
generate_insights(results, llm_ok) ==
    IF ~Get(results, "success", FALSE) \/ Get(results, "data", PyNone) = PyNone
    THEN [text |-> UnableToGenerate, llm_calls |-> 0]
    ELSE IF results.data.kind \notin {"DataFrame", "list"}
    THEN [text |-> NotSupported, llm_calls |-> 0]
    ELSE IF results.data.nrows = 0
    THEN [text |-> NoRowsToAnalyze, llm_calls |-> 0]
    ELSE [text |-> IF llm_ok THEN "i1" ELSE ErrorGenerating, llm_calls |-> 1]

\* The insight step of process_query: generate_insights is called only for a
\* successful result with data, and the insights are empty otherwise
insight_step(results, llm_ok) ==
    IF Get(results, "success", FALSE) /\ Get(results, "data", PyNone) # PyNone
    THEN generate_insights(results, llm_ok)
    ELSE [text |-> "", llm_calls |-> 0]

\* Questions the caller sends: empty, blank, and two proper ones
AskedQuestions == {"", " ", "q1", "q2"}

\* not question.strip()
IsBlank(q) == q \in {"", " "}

\* What the model answers to the SQL prompt
Responses ==
    {<<"select", " ", "x">>,
     <<"fence", "sql", " ", "select", " ", "x", ";", " ", "fence">>,
     <<" ", "drop", " ", "x">>,
     <<"x">>}

\* The clean-up of the response in generate_sql: strip, drop a leading fence
\* with the tag sql or else a leading fence, drop a trailing fence, strip
CleanSql(response) ==
    LET s0 == Strip(response)
        s1 == IF Len(s0) >= 2 /\ s0[1] = "fence" /\ s0[2] = "sql"
              THEN SubSeq(s0, 3, Len(s0)) ELSE s0
        s2 == IF StartsWith(s1, "fence") THEN Tail(s1) ELSE s1
        s3 == IF EndsWith(s2, "fence") THEN SubSeq(s2, 1, Len(s2) - 1) ELSE s2
    IN  Strip(s3)

\* The tuple process_query returns; the chat history is the variable history
Returns(sql, summary, ins, expl) ==
    [sql |-> sql, results |-> summary, insights |-> ins, explanation |-> expl]

InitPipe ==
    /\ IdleIndex /\ IdleSessions
    /\ IdlePipe
    /\ sql_query = <<>>
    /\ tableRows \in TableSizes
    /\ entry = "none"
    /\ result = NoResult
    /\ connects = 0
    /\ executed = <<>>
    /\ raised = FALSE
    /\ max_history = app_max_history
    /\ conversation_history = <<>>
    /\ query_history = <<>>
    /\ now = 0
    /\ added = 0

\* process_query entered without the check of the question
BeginRequestUnchecked ==
    /\ pc \in {"idle", "returned"}
    /\ requests < MaxRequests
    /\ requests' = requests + 1
    /\ \E q \in AskedQuestions :
        /\ question' = q
        /\ pc' = "get_history"
        /\ ret' = NoReturn
    /\ sql_query' = <<>>
    /\ entry' = "none"
    /\ result' = NoResult
    /\ explanation' = ""
    /\ insights' = ""
    /\ calls' = NoCalls
    /\ turnsBefore' = Len(query_history)
    /\ UNCHANGED <<sessionVars, indexVars,
                   tableRows, connects, executed, raised, storeVars, history>>

\* process_query is entered: a blank question returns at once.
BeginRequest ==
    /\ pc \in {"idle", "returned"}
    /\ requests < MaxRequests
    /\ requests' = requests + 1
    /\ \E q \in AskedQuestions :
        /\ question' = q
        /\ IF IsBlank(q)
           THEN /\ pc' = "returned"
                /\ ret' = Returns(<<>>, <<"">>, "", "")
           ELSE /\ pc' = "get_history"
                /\ ret' = NoReturn
    /\ sql_query' = <<>>
    /\ entry' = "none"
    /\ result' = NoResult
    /\ explanation' = ""
    /\ insights' = ""
    /\ calls' = NoCalls
    /\ turnsBefore' = Len(query_history)
    /\ UNCHANGED <<sessionVars, indexVars,
                   tableRows, connects, executed, raised, storeVars, history>>

\* The except branch of process_query: the error goes to the chat history
\* and to the caller, nothing goes to the store.
HandleError(error) ==
    /\ history' = history \o <<[role |-> "user", content |-> <<question>>],
                               [role |-> "assistant", content |-> <<"error", error>>]>>
    /\ ret' = Returns(<<>>, <<"error", error>>, "", "")
    /\ pc' = "returned"

\* self.context_manager.get_conversation_history()
GetConversationHistory ==
    /\ pc = "get_history"
    /\ pc' = "retrieve"
    /\ UNCHANGED <<sessionVars, indexVars,
                   execVars, storeVars, question, history, explanation, insights, ret,
                   calls, turnsBefore, requests>>

\* self.vector_store.get_relevant_context(question, k=5) returns
RetrieveOk ==
    /\ pc = "retrieve"
    /\ calls' = [calls EXCEPT !.retrieval = @ + 1]
    /\ pc' = "generate_sql"
    /\ UNCHANGED <<sessionVars, indexVars,
                   execVars, storeVars, question, history, explanation, insights, ret,
                   turnsBefore, requests>>

\* A retrieval that is tried again after it raised
RetrieveRetried ==
    /\ pc = "retrieve"
    /\ calls.retrieval < 3
    /\ calls' = [calls EXCEPT !.retrieval = @ + 1]
    /\ UNCHANGED <<sessionVars, indexVars,
                   execVars, storeVars, pc, question, history, explanation, insights,
                   ret, turnsBefore, requests>>

\* ... or raises (embedding or index failure)
RetrieveFails ==
    /\ pc = "retrieve"
    /\ calls' = [calls EXCEPT !.retrieval = @ + 1, !.failed = "retrieval"]
    /\ HandleError("retrieval")
    /\ UNCHANGED <<sessionVars, indexVars,
                   execVars, storeVars, question, explanation, insights, turnsBefore,
                   requests>>

\* self.llm.invoke(messages) returns the SQL response, which is cleaned
GenerateSqlOk ==
    /\ pc = "generate_sql"
    /\ calls' = [calls EXCEPT !.sql_generation = @ + 1]
    /\ \E response \in Responses : sql_query' = CleanSql(response)
    /\ pc' = "generate_explanation"
    /\ UNCHANGED <<sessionVars, indexVars,
                   tableRows, entry, result, connects, executed, raised, storeVars,
                   question, history, explanation, insights, ret, turnsBefore, requests>>

GenerateSqlFails ==
    /\ pc = "generate_sql"
    /\ calls' = [calls EXCEPT !.sql_generation = @ + 1, !.failed = "sql_generation"]
    /\ HandleError("sql_generation")
    /\ UNCHANGED <<sessionVars, indexVars,
                   execVars, storeVars, question, explanation, insights, turnsBefore,
                   requests>>

\* generate_explanation(sql_query)
GenerateExplanationOk ==
    /\ pc = "generate_explanation"
    /\ calls' = [calls EXCEPT !.explanation = @ + 1]
    /\ explanation' = "e1"
    /\ pc' = "execute"
    /\ UNCHANGED <<sessionVars, indexVars,
                   execVars, storeVars, question, history, insights, ret, turnsBefore,
                   requests>>

\* An explanation failure that is swallowed: the request goes on without one
GenerateExplanationSwallowed ==
    /\ pc = "generate_explanation"
    /\ calls' = [calls EXCEPT !.explanation = @ + 1, !.failed = "explanation"]
    /\ explanation' = ""
    /\ pc' = "execute"
    /\ UNCHANGED <<sessionVars, indexVars,
                   execVars, storeVars, question, history, insights, ret, turnsBefore,
                   requests>>

\* ... or raises
GenerateExplanationFails ==
    /\ pc = "generate_explanation"
    /\ calls' = [calls EXCEPT !.explanation = @ + 1, !.failed = "explanation"]
    /\ HandleError("explanation")
    /\ UNCHANGED <<sessionVars, indexVars,
                   execVars, storeVars, question, explanation, insights, turnsBefore,
                   requests>>

\* results = execute_safe_query(sql_query, return_dataframe=True); a failed
\* result has its data set to None.
Execute ==
    /\ pc = "execute"
    /\ calls' = [calls EXCEPT !.execution = @ + 1]
    /\ \E outcome \in Outcomes :
        LET r == execute_safe_query(sql_query, TRUE, outcome, tableRows)
        IN  /\ result' = IF r.result.success
                         THEN r.result
                         ELSE [r.result EXCEPT !.data = PyNone]
            /\ connects' = connects + r.connects
            /\ executed' = executed \o r.executed
            /\ raised' = r.raised
    /\ entry' = "execute_safe_query"
    /\ pc' = "insights"
    /\ UNCHANGED <<sessionVars, indexVars,
                   sql_query, tableRows, storeVars, question, history, explanation,
                   insights, ret, turnsBefore, requests>>

\* An insight step that calls the model also for a failed execution
InsightsAlways ==
    /\ pc = "insights"
    /\ ~(Get(result, "success", FALSE) /\ Get(result, "data", PyNone) # PyNone)
    /\ calls' = [calls EXCEPT !.insight = @ + 1]
    /\ insights' = "i1"
    /\ pc' = "add_exchange"
    /\ UNCHANGED <<sessionVars, indexVars,
                   execVars, storeVars, question, history, explanation, ret,
                   turnsBefore, requests>>

\* generate_insights is called only for a successful result with data
InsightsSkipped ==
    /\ pc = "insights"
    /\ ~(Get(result, "success", FALSE) /\ Get(result, "data", PyNone) # PyNone)
    /\ insights' = insight_step(result, TRUE).text
    /\ pc' = "add_exchange"
    /\ UNCHANGED <<sessionVars, indexVars,
                   execVars, storeVars, question, history, explanation, ret, calls,
                   turnsBefore, requests>>

\* generate_insights on a result without rows: the fixed text, no model call
InsightsNoRows ==
    /\ pc = "insights"
    /\ Get(result, "success", FALSE) /\ Get(result, "data", PyNone) # PyNone
    /\ result.data.nrows = 0
    /\ insights' = insight_step(result, TRUE).text
    /\ pc' = "add_exchange"
    /\ UNCHANGED <<sessionVars, indexVars,
                   execVars, storeVars, question, history, explanation, ret, calls,
                   turnsBefore, requests>>

\* generate_insights on rows: one model call, whose error is caught and
\* returned as text
InsightsGenerated ==
    /\ pc = "insights"
    /\ Get(result, "success", FALSE) /\ Get(result, "data", PyNone) # PyNone
    /\ result.data.nrows > 0
    /\ \E llm_ok \in BOOLEAN :
        LET g == insight_step(result, llm_ok)
        IN  /\ insights' = g.text
            /\ calls' = [calls EXCEPT !.insight = @ + g.llm_calls,
                                      !.failed = IF llm_ok THEN @ ELSE "insight"]
    /\ pc' = "add_exchange"
    /\ UNCHANGED <<sessionVars, indexVars,
                   execVars, storeVars, question, history, explanation, ret,
                   turnsBefore, requests>>

\* self.context_manager.add_exchange(...)
AddExchangeStep ==
    /\ pc = "add_exchange"
    /\ conversation_history' =
           add_exchange_messages(conversation_history, max_history, question,
                                 sql_query, result, explanation, insights)
    /\ query_history' =
           add_exchange_turns(query_history, max_history, now + 1, question,
                              sql_query, result, explanation, insights)
    /\ now' = now + 1
    /\ added' = added + 1
    /\ pc' = "reply"
    /\ UNCHANGED <<sessionVars, indexVars,
                   execVars, max_history, question, history, explanation, insights, ret,
                   calls, turnsBefore, requests>>

\* The chat history gets question and answer; the tuple is returned
Reply ==
    /\ pc = "reply"
    /\ history' = history \o <<[role |-> "user", content |-> <<question>>],
                               [role |-> "assistant", content |-> <<"answer">>]>>
    /\ ret' = Returns(sql_query,
                      IF result.success THEN <<"ok">> ELSE <<"error", "execution">>,
                      insights, explanation)
    /\ pc' = "returned"
    /\ UNCHANGED <<sessionVars, indexVars,
                   execVars, storeVars, question, explanation, insights, calls,
                   turnsBefore, requests>>

NextPipe ==
    \/ BeginRequest
    \/ GetConversationHistory
    \/ RetrieveOk
    \/ RetrieveFails
    \/ GenerateSqlOk
    \/ GenerateSqlFails
    \/ GenerateExplanationOk
    \/ GenerateExplanationFails
    \/ Execute
    \/ InsightsSkipped
    \/ InsightsNoRows
    \/ InsightsGenerated
    \/ AddExchangeStep
    \/ Reply

SpecPipe == InitPipe /\ [][NextPipe]_vars

-----------------------------------------------------------------------------
(* The generation request generate_sql builds from the message list of the
   store *)

\* conversation_history[-6:]
history_window == 6

\* SystemMessage(content=...), the content as lines
SystemMessage(content) == [type |-> "system", content |-> content]

\* The text rendering of the messages: Q: for a question, A: for an answer
HistoryText(messages) ==
    [i \in 1..Len(messages) |->
        [prefix |-> IF messages[i].type = "human" THEN "Q:" ELSE "A:",
         of     |-> messages[i]]]

\* The content of the system message: the instruction, the schema context,
\* and the rendering of the recent history when there is history
SystemContent(schema_context, messages) ==
    <<"sql_system_prompt", "Database Schema Context:", schema_context>>
        \o (IF messages # <<>>
            THEN <<"Previous conversation context:",
                   HistoryText(LastK(messages, history_window))>>
            ELSE <<>>)

\* The request with the whole history in it
RequestWithAllHistory(q, schema_context, messages) ==
    <<SystemMessage(SystemContent(schema_context, messages))>>
        \o messages
        \o <<HumanMessage(q)>>

\* The messages generate_sql hands to llm.invoke
Request(q, schema_context, messages) ==
    <<SystemMessage(SystemContent(schema_context, messages))>>
        \o (IF messages # <<>> THEN LastK(messages, history_window) ELSE <<>>)
        \o <<HumanMessage(q)>>

\* The schema contexts the retrieval hands over
SchemaContexts == {<<ContextHeader>>, <<ContextHeader, NoRelationships>>}

\* The store of the application, empty
InitPrompt ==
    /\ IdleExec
    /\ IdleIndex /\ IdleSessions
    /\ IdlePipe
    /\ IdleStore

\* generate_sql(question, conversation_history) up to llm.invoke; ret keeps
\* the request together with what it was built from
BuildRequest ==
    /\ \E q \in Questions, schema_context \in SchemaContexts :
           ret' = [messages |-> Request(q, schema_context, conversation_history),
                   history  |-> conversation_history,
                   question |-> q,
                   context  |-> schema_context]
    /\ UNCHANGED <<sessionVars, indexVars,
                   execVars, storeVars, pc, question, history, explanation,
                   insights, calls, turnsBefore, requests>>

NextPrompt ==
    \/ AddExchange /\ UNCHANGED <<sessionVars, indexVars, execVars, pipeVars>>
    \/ BuildRequest

SpecPrompt == InitPrompt /\ [][NextPrompt]_vars

-----------------------------------------------------------------------------
(* The clean-up of the model response in generate_sql, on every response *)

\* What a response is made of: fences, the language tag in both cases,
\* blanks and SQL
ResponseAtoms == FenceAtoms \cup {"SQL", " ", "select"}

AnyResponses == UNION {[1..n -> ResponseAtoms] : n \in 0..MaxResponse}

\* llm.invoke has returned; ret keeps the response
InitFence ==
    /\ IdleExec
    /\ IdleStore
    /\ IdleIndex /\ IdleSessions
    /\ pc = "idle"
    /\ question = ""
    /\ history = <<>>
    /\ explanation = ""
    /\ insights = ""
    /\ \E response \in AnyResponses : ret = [response |-> response]
    /\ calls = NoCalls
    /\ turnsBefore = 0
    /\ requests = 0

\* sql_query = response.content.strip() and the three tests on it
StripFences ==
    /\ pc = "idle"
    /\ sql_query' = CleanSql(ret.response)
    /\ pc' = "cleaned"
    /\ UNCHANGED <<sessionVars, indexVars,
                   tableRows, entry, result, connects, executed, raised,
                   storeVars, question, history, explanation, insights, ret, calls,
                   turnsBefore, requests>>

NextFence == StripFences

SpecFence == InitFence /\ [][NextFence]_vars

-----------------------------------------------------------------------------
(* InsightGenerator.generate_insights called on what the executor returned,
   by process_query and by a caller of its own *)

\* The texts the SQL generator hands on
GeneratedQueries == {CleanSql(response) : response \in Responses}

InitInsight ==
    /\ IdleIndex /\ IdleSessions
    /\ IdleStore
    /\ IdlePipe
    /\ sql_query \in GeneratedQueries
    /\ tableRows \in TableSizes
    /\ entry = "none"
    /\ result = NoResult
    /\ connects = 0
    /\ executed = <<>>
    /\ raised = FALSE

\* The results a caller can hand over: the executor's own, the same without
\* its data, and the same with data that is no table
Handed(r) ==
    {r, [r EXCEPT !.data = PyNone]}
        \cup (IF r.data = PyNone THEN {} ELSE {[r EXCEPT !.data.kind = "scalar"]})

\* generate_insights(query, results, original_question), called directly;
\* ret keeps the results handed over
GenerateInsights ==
    /\ pc = "idle"
    /\ entry # "none"
    /\ \E r \in Handed(result), llm_ok \in BOOLEAN :
        LET g == generate_insights(r, llm_ok)
        IN  /\ ret' = r
            /\ insights' = g.text
            /\ calls' = [calls EXCEPT !.insight = @ + g.llm_calls,
                                      !.failed = IF g.llm_calls = 0 \/ llm_ok
                                                 THEN @ ELSE "insight"]
    /\ pc' = "generate_insights"
    /\ UNCHANGED <<sessionVars, indexVars,
                   execVars, storeVars, question, history, explanation, turnsBefore,
                   requests>>

\* The insight step of process_query on the executor's result
InsightStep ==
    /\ pc = "idle"
    /\ entry = "execute_safe_query"
    /\ \E llm_ok \in BOOLEAN :
        LET g == insight_step(result, llm_ok)
        IN  /\ ret' = result
            /\ insights' = g.text
            /\ calls' = [calls EXCEPT !.insight = @ + g.llm_calls,
                                      !.failed = IF g.llm_calls = 0 \/ llm_ok
                                                 THEN @ ELSE "insight"]
    /\ pc' = "insight_step"
    /\ UNCHANGED <<sessionVars, indexVars,
                   execVars, storeVars, question, history, explanation, turnsBefore,
                   requests>>

\* QueryExecutor.format_results_for_display(results): the form of the text
\* returned and what it is made of
format_results_for_display(results) ==
    IF ~Get(results, "success", FALSE)
    THEN [form |-> "Error: ", of |-> <<Get(results, "error", <<"Unknown error">>)>>]
    ELSE IF Get(results, "data", PyNone) = PyNone
    THEN [form |-> "No data returned.", of |-> <<>>]
    ELSE IF results.data.kind = "DataFrame"
    THEN IF results.data.nrows = 0
         THEN [form |-> "Query executed successfully but returned no rows.", of |-> <<>>]
         ELSE [form |-> "to_markdown", of |-> <<results.data>>]
    ELSE [form |-> "str", of |-> <<results.data>>]

\* format_results_for_display on what the executor returned; ret keeps the
\* result and the text
FormatResultsForDisplay ==
    /\ pc = "idle"
    /\ entry # "none"
    /\ ret' = [results |-> result, display |-> format_results_for_display(result)]
    /\ pc' = "format_results"
    /\ UNCHANGED <<sessionVars, indexVars,
                   execVars, storeVars, question, history, explanation,
                   insights, calls, turnsBefore, requests>>

NextInsight ==
    \/ ExecuteSafeQuery
    \/ ExecuteQuery
    \/ GenerateInsights
    \/ InsightStep
    \/ FormatResultsForDisplay

SpecInsight == InitInsight /\ [][NextInsight]_vars

-----------------------------------------------------------------------------
(* The VectorStoreManager as a state machine: builds, retrievals, schema
   changes of the database, and new managers on the same directory *)

InitIndex ==
    /\ IdleSessions
    /\ IdleExec
    /\ IdleStore
    /\ IdlePipe
    /\ db_schema \in Snapshots
    /\ persisted = EmptyDirectory
    /\ vectorstore = "None"
    /\ lastCall = NoCall
    /\ ops = 0

\* What sampling does, table by table, when tables are sampled
Samplings(snapshot, include_samples) ==
    LET tables == {get_all_tables(snapshot)[i] : i \in 1..Len(get_all_tables(snapshot))}
    IN  IF include_samples THEN [tables -> SampleOutcomes] ELSE {[t \in tables |-> "rows"]}

\* The faults that can show on a directory: the load path embeds nothing
Faults(directory) == IF directory.files THEN BuildFaults \ {"embedding"} ELSE BuildFaults

\* What can be left behind: the files of an empty collection, after an
\* embedding error
Residues(fault) == IF fault = "embedding" THEN BOOLEAN ELSE {FALSE}

\* build_vector_store(include_samples), called by SQLQueryBuddy.__init__ or
\* by hand
BuildVectorStore ==
    /\ ops < MaxOps
    /\ ops' = ops + 1
    /\ \E include_samples \in BOOLEAN, fault \in Faults(persisted) :
       \E sampled \in Samplings(db_schema, include_samples /\ fault # "introspection"),
          residue \in Residues(fault) :
        LET b == build_vector_store(persisted, db_schema, include_samples, sampled,
                                    fault, residue)
        IN  /\ persisted' = b.directory
            /\ vectorstore' = IF b.ok THEN "Chroma" ELSE vectorstore
            /\ lastCall' = [op       |-> "build",
                            wasBuilt |-> vectorstore # "None",
                            built    |-> TRUE,
                            path     |-> b.path,
                            before   |-> persisted,
                            fresh    |-> b.fresh,
                            embedded |-> b.embedded,
                            outcome  |-> IF b.ok THEN "ok" ELSE "build_error",
                            steps    |-> <<"build">>,
                            returned |-> <<>>,
                            fault    |-> fault,
                            sampled  |-> IF include_samples /\ fault # "introspection"
                                         THEN sampled ELSE <<>>]
    /\ UNCHANGED <<sessionVars, execVars, storeVars, pipeVars, db_schema>>

\* get_relevant_context(query, k), through search_relevant_schemas: the build
\* of an unbuilt index first, then the similarity search, whose embedding of
\* the query can raise
GetRelevantContext ==
    /\ ops < MaxOps
    /\ ops' = ops + 1
    /\ \E query \in Questions, search_ok \in BOOLEAN,
          fault \in IF NeedsBuild(vectorstore) THEN Faults(persisted) ELSE {"none"} :
       \E sampled \in Samplings(db_schema, NeedsBuild(vectorstore) /\ fault # "introspection"),
          residue \in Residues(fault) :
        LET lazy == NeedsBuild(vectorstore)
            b == build_vector_store(persisted, db_schema, TRUE, sampled, fault, residue)
            directory == IF lazy THEN b.directory ELSE persisted
            found == similarity_search(directory.chunks, query, default_k)
        IN  /\ persisted' = directory
            /\ vectorstore' = IF lazy /\ b.ok THEN "Chroma" ELSE vectorstore
            /\ lastCall' =
                   [op       |-> "search",
                    wasBuilt |-> vectorstore # "None",
                    built    |-> lazy,
                    path     |-> IF lazy THEN b.path ELSE "none",
                    before   |-> persisted,
                    fresh    |-> IF lazy THEN b.fresh ELSE <<>>,
                    embedded |-> IF lazy THEN b.embedded ELSE 0,
                    outcome  |-> IF lazy /\ ~b.ok THEN "build_error"
                                 ELSE IF search_ok THEN "ok" ELSE "search_error",
                    steps    |-> IF lazy /\ ~b.ok THEN <<"build">>
                                 ELSE IF lazy THEN <<"build", "search">>
                                 ELSE <<"search">>,
                    returned |-> IF (lazy /\ ~b.ok) \/ ~search_ok THEN <<>>
                                 ELSE get_relevant_context(found),
                    fault    |-> fault,
                    sampled  |-> IF lazy /\ fault # "introspection"
                                 THEN sampled ELSE <<>>]
    /\ UNCHANGED <<sessionVars, execVars, storeVars, pipeVars, db_schema>>

\* The schema of the database is changed
ChangeSchema ==
    /\ ops < MaxOps
    /\ ops' = ops + 1
    /\ db_schema' \in Snapshots \ {db_schema}
    /\ lastCall' = [NoCall EXCEPT !.op = "change", !.before = persisted,
                                  !.wasBuilt = vectorstore # "None"]
    /\ UNCHANGED <<sessionVars, execVars, storeVars, pipeVars, persisted, vectorstore>>

\* VectorStoreManager(database_url, vector_db_path) in a new process:
\* vectorstore is None and the directory is made if it is not there
NewManager ==
    /\ ops < MaxOps
    /\ ops' = ops + 1
    /\ vectorstore' = "None"
    /\ lastCall' = [NoCall EXCEPT !.op = "new", !.before = persisted,
                                  !.wasBuilt = vectorstore # "None"]
    /\ UNCHANGED <<sessionVars, execVars, storeVars, pipeVars, db_schema, persisted>>

NextIndex ==
    \/ BuildVectorStore
    \/ GetRelevantContext
    \/ ChangeSchema
    \/ NewManager

SpecIndex == InitIndex /\ [][NextIndex]_vars

-----------------------------------------------------------------------------
(* Browser sessions as a state machine: the handlers of create_interface run
   for two sessions at once, each on the buddy its own buddy_state holds,
   process_query step by step *)

\* What the user of a session types: nothing, or a question of their own
Asked(s) == {"", IF s = 1 THEN "q1" ELSE "q2"}

\* What the model answers in a session
SessionResponses == {<<"select", " ", "x">>, <<" ", "drop", " ", "x">>}

\* Requests begun in all sessions; datetime.now() reads it
Clock == sessions[1].asked + sessions[2].asked

InitSessions ==
    /\ IdleExec
    /\ IdleStore
    /\ IdlePipe
    /\ IdleIndex
    /\ IdleSessions

\* The step of session s leaves the other sessions alone
Step(s, after) ==
    /\ sessions' = [sessions EXCEPT ![s] = after]
    /\ stepped' = s
    /\ UNCHANGED <<execVars, storeVars, pipeVars, indexVars>>

\* initialize_app: a session without a buddy gets a SQLQueryBuddy of its own,
\* with a ContextManager of its own, unless the construction raises
InitializeApp(s) ==
    /\ ~sessions[s].buddy
    /\ \E ok \in BOOLEAN :
           Step(s, [sessions[s] EXCEPT !.buddy = ok,
                                       !.conversation_history = <<>>,
                                       !.query_history = <<>>])
    /\ UNCHANGED checked_out

\* process_query_with_check up to the read of the conversation history
ProcessQueryWithCheck(s) ==
    /\ sessions[s].pc = "idle"
    /\ Clock < MaxAsked
    /\ \E q \in Asked(s) :
           LET me    == sessions[s]
               begun == [me EXCEPT !.asked = me.asked + 1]
           IN  Step(s, IF ~me.buddy \/ IsBlank(q)
                       THEN begun
                       ELSE [begun EXCEPT !.pc = "generate_sql",
                                          !.question = q,
                                          !.prompted = me.conversation_history,
                                          !.sql = <<>>,
                                          !.results = NoResult,
                                          !.insights = ""])
    /\ UNCHANGED checked_out

\* generate_sql: the generation calls, which answer or raise
SessionGenerateSql(s) ==
    /\ sessions[s].pc = "generate_sql"
    /\ \/ \E response \in SessionResponses :
              Step(s, [sessions[s] EXCEPT !.pc = "execute", !.sql = CleanSql(response)])
       \/ Step(s, [sessions[s] EXCEPT !.pc = "idle"])
    /\ UNCHANGED checked_out

\* Where process_query goes with the results of the execution
AfterExecution(me, results) ==
    [me EXCEPT !.results = results,
               !.pc = IF Get(results, "success", FALSE) /\ Get(results, "data", PyNone) # PyNone
                      THEN "insights" ELSE "add_exchange"]

\* execute_safe_query up to engine.connect(): a rejected text and a failed
\* connect return without a connection
Connect(s) ==
    /\ sessions[s].pc = "execute"
    /\ LET me == sessions[s]
       IN  \/ /\ Rejected(me.sql)
              /\ Step(s, AfterExecution(me, execute_safe_query(me.sql, TRUE, "ok", 0).result))
              /\ UNCHANGED checked_out
           \/ /\ ~Rejected(me.sql)
              /\ Step(s, AfterExecution(me, execute_safe_query(me.sql, TRUE, "connect_error",
                                                               0).result))
              /\ UNCHANGED checked_out
           \/ /\ ~Rejected(me.sql)
              /\ Step(s, [me EXCEPT !.pc = "connected"])
              /\ checked_out' = [checked_out EXCEPT ![s] = @ + 1]

\* The body of the with block that returns the connection when it raises only
RunQueryLeaksOnSuccess(s) ==
    /\ sessions[s].pc = "connected"
    /\ \E outcome \in {"ok", "execute_error"} :
           /\ Step(s, AfterExecution(sessions[s],
                                     execute_safe_query(sessions[s].sql, TRUE, outcome, 3).result))
           /\ checked_out' = [checked_out EXCEPT ![s] = IF outcome = "ok" THEN @ ELSE @ - 1]

\* The body of the with block of execute_query and its exit: the statement
\* runs or raises, and the connection goes back either way
RunQuery(s) ==
    /\ sessions[s].pc = "connected"
    /\ \E outcome \in {"ok", "execute_error"} :
           Step(s, AfterExecution(sessions[s],
                                  execute_safe_query(sessions[s].sql, TRUE, outcome, 3).result))
    /\ checked_out' = [checked_out EXCEPT ![s] = @ - 1]

\* generate_insights of the request
SessionInsights(s) ==
    /\ sessions[s].pc = "insights"
    /\ \E llm_ok \in BOOLEAN :
           Step(s, [sessions[s] EXCEPT !.pc = "add_exchange",
                                       !.insights = IF llm_ok THEN "i1" ELSE ErrorGenerating])
    /\ UNCHANGED checked_out

\* add_exchange on a store every session shares
AddExchangeShared(s) ==
    /\ sessions[s].pc = "add_exchange"
    /\ LET me == sessions[s]
           messages(o) == add_exchange_messages(sessions[o].conversation_history,
                              app_max_history, me.question, me.sql, me.results, "e1", me.insights)
           turns(o) == add_exchange_turns(sessions[o].query_history, app_max_history,
                              Clock, me.question, me.sql, me.results, "e1", me.insights)
       IN  sessions' = [o \in Sessions |->
                           [sessions[o] EXCEPT !.pc = IF o = s THEN "idle" ELSE @,
                                               !.conversation_history = messages(o),
                                               !.query_history = turns(o)]]
    /\ stepped' = s
    /\ UNCHANGED <<execVars, storeVars, pipeVars, indexVars, checked_out>>

\* self.context_manager.add_exchange and the return of process_query
AddExchangeOf(s) ==
    /\ sessions[s].pc = "add_exchange"
    /\ LET me == sessions[s]
       IN  Step(s, [me EXCEPT
                       !.pc = "idle",
                       !.conversation_history =
                           add_exchange_messages(me.conversation_history, app_max_history,
                               me.question, me.sql, me.results, "e1", me.insights),
                       !.query_history =
                           add_exchange_turns(me.query_history, app_max_history, Clock,
                               me.question, me.sql, me.results, "e1", me.insights)])
    /\ UNCHANGED checked_out

\* clear_conversation_with_check: clear_history on the session's own buddy
ClearConversationWithCheck(s) ==
    /\ Step(s, IF sessions[s].buddy
               THEN [sessions[s] EXCEPT !.conversation_history = <<>>,
                                        !.query_history = <<>>]
               ELSE sessions[s])
    /\ UNCHANGED checked_out

NextSessions ==
    \E s \in Sessions :
        \/ InitializeApp(s)
        \/ ProcessQueryWithCheck(s)
        \/ SessionGenerateSql(s)
        \/ Connect(s)
        \/ RunQuery(s)
        \/ SessionInsights(s)
        \/ AddExchangeOf(s)
        \/ ClearConversationWithCheck(s)

SpecSessions == InitSessions /\ [][NextSessions]_vars

-----------------------------------------------------------------------------
(* Claims about the executor, checked under SpecExec *)

DangerousSet == {dangerous_keywords[k] : k \in 1..Len(dangerous_keywords)}

SelectRooted(s) == StartsWith(Strip(Upper(s)), "SELECT")

\* A statement: a text whose first atom, blanks apart, is a word
IsStatement(s) == Strip(s) # <<>> /\ Head(Strip(s)) \in {"select", "x", "drop", "LIMIT"}

NamesDangerous(s) == \E kw \in DangerousSet : Contains(Upper(s), kw)

Returned == entry # "none" /\ ~raised

GateRejected ==
    Returned /\ ~result.success /\ Head(result.error) = "not allowed"

\* C1: a text that is not SELECT-rooted and holds a dangerous keyword is
\* rejected by execute_safe_query (success = false), and the call opens no
\* connection and executes nothing.
C1_DangerousRejected ==
    (entry = "execute_safe_query" /\ ~SelectRooted(sql_query) /\ NamesDangerous(sql_query))
        => /\ ~raised
           /\ result.success = FALSE
           /\ connects = 0
           /\ executed = <<>>

C1_Witness ==
    /\ entry = "execute_safe_query"
    /\ sql_query = <<" ", "drop", " ", "x">>
    /\ result.success = FALSE
    /\ connects = 0

\* A text carries the ceiling when one of its LIMIT clauses has the ceiling
\* as its number.
CarriesCeiling(s) == \E i \in LimitClauses(s) : NumVal(s[i + 2]) = limit_rows

\* C2: a SELECT-rooted text is never rejected at the gate by
\* execute_safe_query but goes on to execution, and when the original text
\* had no LIMIT clause the text executed carries LIMIT <ceiling>.
C2_SelectRunsUnderCeiling ==
    (entry = "execute_safe_query" /\ SelectRooted(sql_query))
        => /\ ~GateRejected
           /\ connects = 1
           /\ ~HasLimitClause(sql_query)
                  => \A i \in 1..Len(executed) : CarriesCeiling(executed[i])

\* C3: a statement handed to execute_safe_query is rejected at the gate or
\* executed with a row limit no larger than the ceiling.
C3_RejectedOrCapped ==
    entry = "execute_safe_query"
        => \/ GateRejected /\ executed = <<>>
           \/ \A i \in 1..Len(executed) :
                  IsStatement(executed[i])
                      => HasLimitClause(executed[i]) /\ RowCap(executed[i]) <= limit_rows

\* A SELECT-rooted text followed, after a semicolon, by a statement that uses
\* a dangerous keyword
Smuggles(s) ==
    /\ SelectRooted(s)
    /\ \E j, k \in 1..Len(s) : j < k /\ s[j] = ";" /\ UpperAtom(s[k]) \in DangerousSet

\* C4: no SELECT-rooted text with a semicolon-separated dangerous second
\* statement is handed to the database connection by execute_safe_query.
C4_NoSmuggling ==
    entry = "execute_safe_query"
        => \A i \in 1..Len(executed) : ~Smuggles(executed[i])

\* C5: every statement execute_safe_query hands to the database connection
\* starts with SELECT.
C5_OnlySelectExecuted ==
    entry = "execute_safe_query"
        => \A i \in 1..Len(executed) :
               IsStatement(executed[i]) => SelectRooted(executed[i])

\* The text with the atoms at positions from..to taken out
Without(s, from, to) == SubSeq(s, 1, from - 1) \o SubSeq(s, to + 1, Len(s))

\* The texts a result may echo: the text handed in, or that text with
\* " LIMIT <ceiling>" put in (and blanks after a closing semicolon dropped)
Echoes(q) ==
    \/ q = sql_query
    \/ /\ CarriesCeiling(q)
       /\ LET i == Max(LimitClauses(q))
          IN  i > 1 /\ Without(q, i - 1, i + 2) \in {sql_query, RStrip(sql_query)}

\* C6: execute_query and execute_safe_query never raise; an error while
\* connecting, executing or fetching comes back as success = false with the
\* error set, data None and the query text echoed.
C6_NeverRaises ==
    entry # "none"
        => /\ ~raised
           /\ result # NoResult
           /\ result.success = FALSE
                  => /\ result.error # <<>>
                     /\ result.data = PyNone
                     /\ Echoes(result.query)

C6_Witness ==
    /\ entry = "execute_query"
    /\ ~raised
    /\ result.success = FALSE
    /\ result.error = <<"db", "fetch_error">>
    /\ Len(executed) = 1

Has(key) == key \in DOMAIN result

\* C7 as stated: success, row_count and query on every path, data exactly on
\* success, error exactly on failure.
C7_CanonicalOnEveryPath ==
    Returned
        => /\ Has("success") /\ Has("row_count") /\ Has("query")
           /\ (Has("data") /\ ~result.data.isNone) <=> result.success
           /\ Has("error") <=> ~result.success

\* C7, amended: every path returns success, query and data; data is tabular
\* with its columns exactly on success and None otherwise; row_count and
\* columns are present exactly on success; error exactly on failure.
C7_ResultShape ==
    Returned
        => /\ Has("success") /\ Has("query") /\ Has("data")
           /\ ~result.data.isNone <=> result.success
           /\ result.success => result.data.columns = result.columns
           /\ Has("row_count") <=> result.success
           /\ Has("columns") <=> result.success
           /\ Has("error") <=> ~result.success

C7_Witness ==
    /\ entry = "execute_safe_query"
    /\ GateRejected
    /\ ~Has("row_count")
    /\ Has("data")

-----------------------------------------------------------------------------
(* Claims about the conversation store, checked under SpecStore *)

\* C9: once more than max_history exchanges have been appended the store
\* holds exactly max_history turns, the most recently appended ones in append
\* order, and at most 2 * max_history messages; the caps hold after every
\* append.
C9_CappedFifo ==
    /\ Len(query_history) <= max_history
    /\ Len(conversation_history) <= 2 * max_history
    /\ added > max_history
           => /\ Len(query_history) = max_history
              /\ \A i \in 1..Len(query_history) :
                     query_history[i].timestamp = now - max_history + i

\* The same for a cap of at least one turn
C9_CappedFifoPositiveCap == max_history >= 1 => C9_CappedFifo

-----------------------------------------------------------------------------
(* Claims about the request pipeline, checked under SpecPipe *)

Answered == pc = "returned" /\ ~IsBlank(question)

\* The request ended in the except branch of process_query
Aborted ==
    Answered /\ ret.results \in {<<"error", "retrieval">>, <<"error", "sql_generation">>,
                                 <<"error", "explanation">>}

\* The store holds one turn more than when the request began, the turn of
\* this request
OneTurnAppended ==
    /\ Len(query_history) = turnsBefore + 1
    /\ query_history[Len(query_history)].question = question
    /\ query_history[Len(query_history)].sql_query = sql_query
    /\ query_history[Len(query_history)].success = result.success

CallCounts ==
    <<calls.retrieval, calls.sql_generation, calls.explanation, calls.execution,
      calls.insight>>

\* C11: within one request each of context retrieval, SQL generation,
\* explanation generation, SQL execution and insight generation is called at
\* most once, also when the call fails; a call that raised is the last call
\* of its request.
C11_NoStepRetried ==
    /\ \A i \in 1..Len(CallCounts) : CallCounts[i] <= 1
    /\ calls.failed = "retrieval"
           => CallCounts = <<1, 0, 0, 0, 0>> /\ pc = "returned"
    /\ calls.failed = "sql_generation"
           => CallCounts = <<1, 1, 0, 0, 0>> /\ pc = "returned"
    /\ calls.failed = "explanation"
           => CallCounts = <<1, 1, 1, 0, 0>> /\ pc = "returned"
    /\ (entry = "execute_safe_query" /\ ~result.success) => calls.execution = 1

C11_Witness ==
    /\ pc = "returned"
    /\ requests = 2
    /\ calls.failed = "sql_generation"
    /\ CallCounts = <<1, 1, 0, 0, 0>>
    /\ Len(history) = 4
    /\ Head(history[2].content) = "error"

\* The request ended as the except branch of process_query ends it for
\* the error: nothing but the message is returned, and the chat history ends
\* with it
EndedWith(error) ==
    /\ pc = "returned"
    /\ ret = Returns(<<>>, <<"error", error>>, "", "")
    /\ history[Len(history)] = [role |-> "assistant", content |-> <<"error", error>>]
    /\ Len(query_history) = turnsBefore

\* C13 as stated: when the SQL, explanation or insight generation call of a
\* request fails, the request ends there with the error returned to the
\* caller, no SQL is run after the failure and no turn is appended.
C13_GenerationFailureFatal ==
    calls.failed \in {"sql_generation", "explanation", "insight"}
        => EndedWith(calls.failed)

\* C13, amended: a failure of the SQL or of the explanation call ends the
\* request with the error returned, before any SQL is executed and without a
\* turn appended; a failure of the insight call is caught by
\* generate_insights, its message becomes the insights text, and the
\* request completes as a successful one with its turn appended.
C13_SqlOrExplanationFailureFatal ==
    /\ calls.failed \in {"sql_generation", "explanation"}
           => /\ EndedWith(calls.failed)
              /\ calls.execution = 0
              /\ calls.insight = 0
    /\ calls.failed = "insight"
           => /\ insights = ErrorGenerating
              /\ result.success
              /\ pc \in {"add_exchange", "reply", "returned"}
              /\ pc = "returned"
                     => /\ ret = Returns(sql_query, <<"ok">>, ErrorGenerating, explanation)
                        /\ OneTurnAppended
                        /\ query_history[Len(query_history)].success
                        /\ query_history[Len(query_history)].insights = ErrorGenerating

C13_Witness ==
    /\ pc = "returned"
    /\ calls.failed = "insight"
    /\ ret.insights = ErrorGenerating
    /\ ret.results = <<"ok">>
    /\ Len(query_history) = turnsBefore + 1

\* Nothing of the request has reached the store or the caller
NothingOut == Len(query_history) = turnsBefore /\ ret = NoReturn

\* C14: the steps of one request happen in the order fetch history, retrieve
\* context, generate SQL, generate explanation, gate and execute, generate
\* insights, append to the store, return: when a step is about to start,
\* every step before it has been done once and no step after it has been
\* done; the insight call is made only after a successful execution.
C14_StepsInOrder ==
    /\ pc \in {"get_history", "retrieve"}
           => CallCounts = <<0, 0, 0, 0, 0>> /\ entry = "none" /\ NothingOut
    /\ pc = "generate_sql"
           => CallCounts = <<1, 0, 0, 0, 0>> /\ entry = "none" /\ NothingOut
    /\ pc = "generate_explanation"
           => CallCounts = <<1, 1, 0, 0, 0>> /\ entry = "none" /\ NothingOut
    /\ pc = "execute"
           => CallCounts = <<1, 1, 1, 0, 0>> /\ entry = "none" /\ NothingOut
    /\ pc = "insights"
           => CallCounts = <<1, 1, 1, 1, 0>> /\ entry = "execute_safe_query" /\ NothingOut
    /\ pc = "add_exchange"
           => /\ SubSeq(CallCounts, 1, 4) = <<1, 1, 1, 1>>
              /\ calls.insight = 1 => result.success /\ result.data.nrows > 0
              /\ entry = "execute_safe_query"
              /\ NothingOut
    /\ pc = "reply"
           => /\ SubSeq(CallCounts, 1, 4) = <<1, 1, 1, 1>>
              /\ OneTurnAppended
              /\ ret = NoReturn
    /\ (Answered /\ ~Aborted)
           => /\ SubSeq(CallCounts, 1, 4) = <<1, 1, 1, 1>>
              /\ OneTurnAppended
              /\ ret.sql = sql_query

C14_Witness ==
    /\ Answered
    /\ ~Aborted
    /\ CallCounts = <<1, 1, 1, 1, 1>>
    /\ result.success
    /\ OneTurnAppended
    /\ requests = 2

-----------------------------------------------------------------------------
(* Claims about the insight generator, checked under SpecInsight *)

\* The results generate_insights does not analyse: a failed execution, no
\* data, or data without rows
Failed(r) == ~Get(r, "success", FALSE)

NoData(r) == Get(r, "data", PyNone) = PyNone

NoRows(r) == ~NoData(r) /\ r.data.kind \in {"DataFrame", "list"} /\ r.data.nrows = 0

\* The text generate_insights returns for a failed execution
Sentinel == generate_insights([success |-> FALSE], TRUE).text

-----------------------------------------------------------------------------
(* Claims about the vector store manager, checked under SpecIndex *)

\* The last call ran build_vector_store and the build returned
BuildReturned == lastCall.built /\ lastCall.outcome # "build_error"

\* C15: build_vector_store loads what the directory holds whenever the
\* directory lists a file, embedding and adding nothing, and creates the
\* index from the freshly split chunks only otherwise; the content of the
\* index is then exactly the persisted content or exactly the new chunks.
C15_LoadOrCreate ==
    /\ BuildReturned
           => /\ vectorstore = "Chroma"
              /\ lastCall.before.files
                     => /\ lastCall.path = "load"
                        /\ persisted = lastCall.before
                        /\ lastCall.embedded = 0
              /\ ~lastCall.before.files
                     => /\ lastCall.path = "create"
                        /\ persisted = [files |-> TRUE, chunks |-> lastCall.fresh]
                        /\ lastCall.embedded = Len(lastCall.fresh)
              /\ persisted.chunks \in {lastCall.before.chunks, lastCall.fresh}
    /\ (lastCall.built /\ lastCall.outcome = "build_error")
           => /\ persisted.chunks = lastCall.before.chunks
              /\ lastCall.embedded = 0

\* A build on a directory that holds the index of another snapshot
C15_Witness ==
    /\ lastCall.op = "build"
    /\ BuildReturned
    /\ lastCall.path = "load"
    /\ lastCall.fresh # lastCall.before.chunks
    /\ lastCall.before.chunks # <<>>
    /\ persisted = lastCall.before
    /\ db_schema = "shop_v2"

\* C16: search_relevant_schemas on an unbuilt index runs build_vector_store
\* first and searches only after the build returned, in the same call; on a
\* built index it runs no build; when the lazy build fails the error leaves
\* the call, no search is made and the index stays unbuilt.
C16_LazyBuildOnce ==
    lastCall.op = "search"
        => /\ ~lastCall.wasBuilt
                  => /\ lastCall.built
                     /\ Head(lastCall.steps) = "build"
                     /\ lastCall.outcome = "build_error"
                            => /\ lastCall.steps = <<"build">>
                               /\ lastCall.returned = <<>>
                               /\ vectorstore = "None"
                     /\ lastCall.outcome # "build_error"
                            => /\ lastCall.steps = <<"build", "search">>
                               /\ vectorstore = "Chroma"
           /\ lastCall.wasBuilt
                  => /\ ~lastCall.built
                     /\ lastCall.steps = <<"search">>
                     /\ lastCall.embedded = 0
                     /\ persisted = lastCall.before
                     /\ vectorstore = "Chroma"

\* A retrieval on the built index of a manager that built it lazily
C16_Witness ==
    /\ lastCall.op = "search"
    /\ lastCall.wasBuilt
    /\ lastCall.steps = <<"search">>
    /\ lastCall.outcome = "ok"
    /\ ops >= 2
    /\ persisted.chunks # <<>>

\* The directory holds a persisted index
Persisted == persisted.files /\ persisted.chunks # <<>>

\* C17: once an index is persisted, no step changes its content, whether
\* the step is a change of the schema, a retrieval, a build or a new
\* manager, and none embeds a chunk.
C17_NoInvalidation ==
    [][Persisted => persisted' = persisted /\ lastCall'.embedded = 0]_vars

\* The index of the first snapshot is what a retrieval and a build find after
\* the schema changed
C17_Witness ==
    /\ Persisted
    /\ lastCall.built
    /\ lastCall.outcome = "ok"
    /\ lastCall.before = persisted
    /\ lastCall.fresh # persisted.chunks
    /\ db_schema = "shop"
    /\ \A i \in 1..Len(persisted.chunks) : persisted.chunks[i].table # "orders"

\* The chunks of the relationships document among the given chunks
Relationships(chunks) ==
    SelectSeq(chunks, LAMBDA c : c.type = "relationships")

\* C18: get_relevant_context never returns an empty text, and the
\* relationships document of every build is not empty: it is the list of the
\* relationships or the text for none, also for a database without tables or
\* without foreign keys.
C18_ContextNeverEmpty ==
    /\ (lastCall.op = "search" /\ lastCall.outcome = "ok")
           => /\ lastCall.returned # <<>>
              /\ Head(lastCall.returned) = ContextHeader
    /\ (lastCall.built /\ lastCall.path # "none")
           => /\ Len(Relationships(lastCall.fresh)) = 1
              /\ Relationships(lastCall.fresh)[1].text # <<>>
              /\ db_schema \in {"empty", "customers"}
                     => Relationships(lastCall.fresh)[1].text = <<NoRelationships>>
    /\ \A i \in 1..Len(persisted.chunks) : persisted.chunks[i].text # <<>>

\* The context of a database without tables
C18_Witness ==
    /\ lastCall.op = "search"
    /\ lastCall.outcome = "ok"
    /\ db_schema = "empty"
    /\ lastCall.path = "create"
    /\ lastCall.returned = <<ContextHeader, NoRelationships>>

-----------------------------------------------------------------------------
(* Claims about clear_history and get_summary, checked under SpecStore *)

\* The summary of the store as it is
Summary == get_summary(query_history, conversation_history)

\* The store holds nothing and its summary counts nothing
EmptyStore ==
    /\ conversation_history = <<>>
    /\ query_history = <<>>
    /\ Summary.total_queries = 0
    /\ Summary.successful_queries = 0
    /\ Summary.total_rows_returned = 0
    /\ Summary.conversation_turns = 0
    /\ Summary.success_rate = Zero

\* C19: clear_history, in whatever state it is called, empties the message
\* list and the turn list and leaves max_history as it was; after it the
\* summary reports zero queries, and the next append leaves one turn and two
\* messages as on a new store.
C19_ClearEmptiesBoth ==
    /\ [](added = 0 => EmptyStore)
    /\ [](added = 1 => /\ Len(query_history) = 1
                       /\ Len(conversation_history) = 2
                       /\ query_history[1].timestamp = now
                       /\ Summary.total_queries = 1)
    /\ [][now' = now => /\ conversation_history' = <<>>
                        /\ query_history' = <<>>
                        /\ added' = 0]_vars
    /\ [][max_history' = max_history]_vars

\* An append after a clear after two appends
C19_Witness ==
    /\ now = 3
    /\ added = 1
    /\ Len(query_history) = 1
    /\ query_history[1].timestamp = 3
    /\ max_history = 2

\* The number of the turns with success true
Successes(turns) == Cardinality({i \in 1..Len(turns) : turns[i].success})

\* The rows of the first n turns
RECURSIVE Rows(_, _)
Rows(turns, n) ==
    IF n = 0 THEN 0 ELSE Rows(turns, n - 1) + turns[n].row_count

\* What C20 says of the summary, but for the bound by max_history
SummaryOfRetained ==
    /\ Summary.total_queries = Len(query_history)
    /\ Summary.successful_queries = Successes(query_history)
    /\ Summary.successful_queries <= Summary.total_queries
    /\ ~Summary.success_rate.raised
    /\ Len(query_history) = 0 => Summary.success_rate.num = 0
    /\ Len(query_history) > 0
           => Summary.success_rate.num * Summary.total_queries
                  = Summary.successful_queries * Summary.success_rate.den
    /\ Summary.total_rows_returned = Rows(query_history, Len(query_history))
    /\ Summary.conversation_turns = Summary.total_queries

\* C20: the summary counts the retained turns: total_queries is their
\* number, successful_queries the number of them with success true,
\* successful_queries <= total_queries <= max_history, success_rate is their
\* quotient and 0 without turns, total_rows_returned the sum of their row
\* counts, and conversation_turns = total_queries.
C20_SummaryOfRetained ==
    /\ SummaryOfRetained
    /\ Summary.total_queries <= max_history

\* The same for a cap of at least one turn
C20_SummaryOfRetainedPositiveCap == max_history >= 1 => C20_SummaryOfRetained

-----------------------------------------------------------------------------
(* Claims about the text the executor runs, checked under SpecExec *)

\* The text handed to conn.execute by the call
Ran == executed[1]

\* The limit as the executor writes it
LimitText == <<" ", "LIMIT", " ", NumStr(limit_rows)>>

\* The position of the final semicolon of a text that ends with one, blanks
\* at the end apart
FinalSemicolon(s) == Len(RStrip(s))

-----------------------------------------------------------------------------
(* Claims about the generation request, checked under SpecPrompt *)

\* generate_sql has built a request
RequestBuilt == "messages" \in DOMAIN ret

\* The history messages of the request: all but the first and the last
Carried == SubSeq(ret.messages, 2, Len(ret.messages) - 1)

\* C22: the request is one system message, with the instruction, the schema
\* context and, when there is history, a rendering of the recent history,
\* then at most the last 6 messages of the history in their order, then the
\* question as the last message; no older message is in it, and without
\* history it is the system message and the question.
C22_RequestShape ==
    RequestBuilt
        => /\ Len(ret.messages) >= 2
           /\ \A i \in 1..Len(ret.messages) : ret.messages[i].type = "system" <=> i = 1
           /\ ret.messages[1].content[1] = "sql_system_prompt"
           /\ ret.messages[1].content[3] = ret.context
           /\ Len(ret.messages[1].content) > 3 <=> ret.history # <<>>
           /\ ret.messages[Len(ret.messages)] = HumanMessage(ret.question)
           /\ Len(Carried) = Min(6, Len(ret.history))
           /\ \A i \in 1..Len(Carried) :
                  Carried[i] = ret.history[Len(ret.history) - Len(Carried) + i]
           /\ ret.history = <<>> => Len(ret.messages) = 2

\* A request built on a history of four exchanges
C22_Witness ==
    /\ RequestBuilt
    /\ Len(ret.history) = 8
    /\ Len(ret.messages) = 8
    /\ ret.messages[2] = ret.history[3]
    /\ ret.messages[2] # ret.history[1]

-----------------------------------------------------------------------------
(* Claims about the clean-up of the response, checked under SpecFence *)

Cleaned == pc = "cleaned"

\* A text without fence and without language tag
Bare(s) == \A i \in 1..Len(s) : s[i] \notin {"fence", "sql", "SQL"}

\* The response is the body wrapped in fences, with the tag or without
Wraps(response, tag, body) ==
    Strip(response) = <<"fence">> \o tag \o body \o <<"fence">>

\* The bodies a response of the bound can wrap
Bodies == {b \in AnyResponses : Bare(b)}

\* C23: whatever the response, the sql returned neither begins nor ends with
\* a fence; a response that wraps a text in fences, with the tag sql or SQL
\* or without tag, gives that text; and a response without fence is returned
\* as it is, blanks around it apart.
C23_FencesStripped ==
    Cleaned
        => /\ ~StartsWith(sql_query, "fence")
           /\ ~EndsWith(sql_query, "fence")
           /\ \A tag \in {<<>>, <<"sql">>, <<"SQL">>}, body \in Bodies :
                  Wraps(ret.response, tag, body) => sql_query = Strip(body)
           /\ ~Contains(ret.response, "fence") => sql_query = Strip(ret.response)

\* What holds: one pair of fences, with the tag sql or without tag, is taken
\* off, and a response without fence is only stripped
C23_OnePairStripped ==
    Cleaned
        => /\ \A tag \in {<<>>, <<"sql">>}, body \in Bodies :
                  Wraps(ret.response, tag, body) => sql_query = Strip(body)
           /\ ~Contains(ret.response, "fence") => sql_query = Strip(ret.response)

-----------------------------------------------------------------------------
(* Claims about format_results_for_display, checked under SpecInsight *)

Formatted == pc = "format_results"

\* C24: format_results_for_display returns the error with its prefix for a
\* failed result, the text for no rows for a successful result without rows,
\* whether its data is a DataFrame or a list, and a rendered table for a
\* successful result with rows.
C24_DisplayForms ==
    Formatted
        => /\ ~ret.results.success
                  => /\ ret.display.form = "Error: "
                     /\ ret.display.of = <<ret.results.error>>
           /\ (ret.results.success /\ ret.results.row_count = 0)
                  => ret.display.form = "Query executed successfully but returned no rows."
           /\ (ret.results.success /\ ret.results.row_count > 0)
                  => ret.display.form = "to_markdown"

\* The same for the results whose data is a DataFrame
C24_DisplayFormsOfDataFrame ==
    (Formatted /\ ret.results.success /\ ret.results.data.kind # "DataFrame")
        \/ C24_DisplayForms

-----------------------------------------------------------------------------
(* Claims about table errors during a build, checked under SpecIndex *)

\* The tables whose sampling met a read error in the last build
ReadErrors == {t \in DOMAIN lastCall.sampled : lastCall.sampled[t] = "error"}

\* The build of the last call met an error on a table: the introspection of
\* a table raised, or the sampling of one did
TableError ==
    /\ lastCall.built
    /\ get_all_tables(db_schema) # <<>>
    /\ lastCall.fault = "introspection" \/ (lastCall.fault = "none" /\ ReadErrors # {})

\* The chunks of the fresh documents of one type for one table
ChunksOf(type, table) ==
    SelectSeq(lastCall.fresh, LAMBDA c : c.type = type /\ c.table = table)

\* Every table has its schema among the fresh documents, every sampled
\* table its sample document, and a table with a read error the marker
AllTablesIndexed ==
    \A i \in 1..Len(get_all_tables(db_schema)) :
        LET t == get_all_tables(db_schema)[i]
        IN  /\ ChunksOf("schema", t) # <<>>
            /\ t \in DOMAIN lastCall.sampled
                   => /\ Len(ChunksOf("sample_data", t)) = 1
                      /\ t \in ReadErrors
                             <=> ChunksOf("sample_data", t)[1].text
                                    = <<"Sample Data:", "Error retrieving sample data", t>>

\* C25: an introspection or read error on one table does not abort the
\* build: the build returns, the table has an error marker in its place, and
\* the documents of every other table are among those indexed.
C25_TableErrorsInline ==
    TableError
        => /\ lastCall.outcome # "build_error"
           /\ vectorstore = "Chroma"
           /\ AllTablesIndexed

\* The same for read errors alone: the marker of get_sample_data
C25_ReadErrorsInline ==
    (TableError /\ lastCall.fault = "none")
        => /\ lastCall.outcome # "build_error"
           /\ vectorstore = "Chroma"
           /\ AllTablesIndexed

-----------------------------------------------------------------------------
(* Claims about concurrent sessions, checked under SpecSessions *)

\* The request of session s is inside one of its generation calls
Generating(s) == sessions[s].pc \in {"generate_sql", "insights"}

\* execute_safe_query of the request of session s has returned
Executed(s) == sessions[s].pc \in {"insights", "add_exchange"}

\* C26: in every interleaving of the sessions' requests a request has a
\* connection checked out only between engine.connect() and the end of the
\* with block of its own execute_query: none once execute_query has
\* returned, whether with success or with an error, and none while one of
\* its generation calls (SQL and explanation, insights) is in progress.
C26_NoConnectionAcrossGeneration ==
    \A s \in Sessions :
        /\ checked_out[s] = IF sessions[s].pc = "connected" THEN 1 ELSE 0
        /\ Executed(s) => checked_out[s] = 0
        /\ Generating(s) => checked_out[s] = 0

\* One request generates insights from its rows, its connection returned,
\* while the request of the other session holds a connection
C26_Witness ==
    \E s \in Sessions, o \in Sessions :
        /\ s # o
        /\ sessions[s].pc = "insights"
        /\ sessions[s].results.success
        /\ sessions[o].pc = "connected"
        /\ checked_out[o] = 1
        /\ checked_out[s] = 0

\* The messages and turns hold exchanges of session s only
OwnExchanges(s, messages, turns) ==
    /\ \A i \in 1..Len(messages) :
           messages[i].type = "human" => messages[i].text \in Asked(s) \ {""}
    /\ \A i \in 1..Len(turns) : turns[i].question \in Asked(s) \ {""}

\* C27: with two sessions interleaving process_query and clear_conversation,
\* the turns and messages of a session's store change only in steps of that
\* session's own handlers, and the history handed to the prompt of a
\* session's request, like its store, holds that session's exchanges only.
C27_SessionsIsolated ==
    /\ [](\A s \in Sessions :
              /\ OwnExchanges(s, sessions[s].prompted, <<>>)
              /\ OwnExchanges(s, sessions[s].conversation_history, sessions[s].query_history))
    /\ [][\A s \in Sessions :
              (\/ sessions'[s].conversation_history # sessions[s].conversation_history
               \/ sessions'[s].query_history # sessions[s].query_history)
              => stepped' = s]_vars

\* Session 1 has just begun a request prompted with its earlier exchange
\* while session 2 keeps an exchange of its own
C27_Witness ==
    /\ stepped = 1
    /\ sessions[1].pc = "generate_sql"
    /\ sessions[1].prompted # <<>>
    /\ sessions[1].prompted = sessions[1].conversation_history
    /\ sessions[2].query_history # <<>>
    /\ sessions[2].conversation_history # <<>>

-----------------------------------------------------------------------------
(* Claims about the pairing of the two lists, checked under SpecStore *)

\* Messages 2i-1 and 2i are the question and the response of turn i
PairOf(i) ==
    LET asked == conversation_history[2 * i - 1]
        answer == conversation_history[2 * i]
    IN  /\ asked.type = "human"
        /\ answer.type = "ai"
        /\ asked.text = query_history[i].question
        /\ answer.sql = query_history[i].sql_query

\* C28: after any sequence of add_exchange and clear_history the message
\* list has exactly twice as many entries as the turn list, alternates
\* question message and response message, and its i-th pair carries the
\* question of the i-th retained turn.
C28_ListsPaired ==
    /\ Len(conversation_history) = 2 * Len(query_history)
    /\ \A i \in 1..Len(query_history) : PairOf(i)

\* After a clear, more exchanges were added than the cap keeps
C28_Witness ==
    /\ max_history >= 1
    /\ now > added
    /\ added > max_history
    /\ Len(query_history) = max_history
    /\ PairOf(max_history)

-----------------------------------------------------------------------------
(* Claims about blank questions, checked under SpecPipe *)

\* process_query was entered with an empty or whitespace-only question
BlankAsked == pc = "returned" /\ IsBlank(question)

\* C29: process_query with an empty or whitespace-only question returns in
\* the step that enters it, with the caller's history unchanged and empty
\* sql, results, insights and explanation; it makes no retrieval, generation
\* or database call and leaves the Conversation Store unchanged, and the
\* request takes no further step.
C29_BlankIsNoOp ==
    /\ [][requests' = requests + 1 /\ IsBlank(question')
              => /\ pc' = "returned"
                 /\ ret' = Returns(<<>>, <<"">>, "", "")
                 /\ history' = history
                 /\ calls' = NoCalls
                 /\ UNCHANGED <<storeVars, connects, executed, indexVars>>]_vars
    /\ [](BlankAsked => calls = NoCalls /\ Len(query_history) = turnsBefore)
    /\ [][BlankAsked => requests' = requests + 1]_vars

\* A whitespace-only question asked after an answered one: the store and
\* the chat history hold the first exchange only
C29_Witness ==
    /\ BlankAsked
    /\ question = " "
    /\ requests = 2
    /\ Len(query_history) = 1
    /\ Len(history) = 2
    /\ ret = Returns(<<>>, <<"">>, "", "")

-----------------------------------------------------------------------------
(* Claims about running a returned query again, checked under SpecAgain *)

\* execute_query has returned from the call on the query of the first result
RanAgain == entry = "execute_query again" /\ ~raised

\* The number of LIMIT clauses of a text
Limits(s) == Cardinality(LimitClauses(s))

\* C30: the row-limit amendment is idempotent: amending an amended text
\* leaves it unchanged, so execute_query on the query field of an earlier
\* successful result runs exactly that text, returns it as its own query
\* field and adds no second LIMIT clause.
C30_AmendmentIdempotent ==
    /\ AddLimit(AddLimit(sql_query, limit_rows), limit_rows) = AddLimit(sql_query, limit_rows)
    /\ RanAgain
           => /\ result.query = executed[1]
              /\ Limits(result.query) = Limits(executed[1])
              /\ Len(executed) = 2 => executed[2] = executed[1]

\* A SELECT without a limit was amended by the first call and run as
\* amended by the second
C30_Witness ==
    /\ RanAgain
    /\ ~Contains(Upper(sql_query), "LIMIT")
    /\ executed[1] # sql_query
    /\ Len(executed) = 2
    /\ Limits(executed[2]) = 1
    /\ result.success

====
